---- MODULE Spec2Model ----
(***************************************************************************)
(* Tlex virtual streaming substrate: the session pool (WorkerManager), the *)
(* reader registry (streaming/manager.py), the virtual reader              *)
(* (streaming/reader.py) and its per-part fetch loop.                      *)
(*                                                                         *)
(* Three specifications share the variables:                               *)
(*   SpecPool  the WorkerManager API called by abstract lease holders      *)
(*   Spec      concurrent HTTP range requests on readers, at the           *)
(*             granularity of the awaits and yields of the coroutines      *)
(*   SpecData  one reader serving a partition of a byte range, with the    *)
(*             chunk arithmetic and the retry loop of _stream_part         *)
(***************************************************************************)
EXTENDS Integers, Sequences, FiniteSets, TLC

\* ------------------------------------------------------------------ bounds
\* Largest number of clients load_workers puts in the pool.
MaxClients == 2
\* Number of requests (get_virtual_reader + read_range); a reader object is
\* named after the request that constructed it.
NumCalls == 2
\* Parts per media item in Spec.
NumParts == 2
\* Lease holders of SpecPool, and the largest pool they draw from.
NumHolders == 3
MaxPoolClients == 3

ClientIds == 1..MaxClients
Calls == 1..NumCalls
Readers == Calls
Parts == 1..NumParts
Holders == 1..NumHolders

VARIABLES
    client_pool,     \* WorkerManager._client_pool: sequence of client ids
    client_in_use,   \* WorkerManager._client_in_use: client id -> BOOLEAN
    lock_held,       \* WorkerManager._lock is held across an await (get_best_worker)
    held,            \* SpecPool: holder -> sequence of clients it was handed
    reader_cache,    \* manager._reader_cache[media_id]: 0 or the cached reader
    rd,              \* reader objects
    cs,              \* requests: coroutine position and locals
    file_id_cache,   \* cache._FILE_ID_CACHE, keys (part, client)
    released,        \* readers popped from the registry by release_reader
    chunk_cache,     \* cache._CHUNK_CACHE: entries [key, data], oldest first
    parts,           \* SpecData: file_size of the media item's parts, in order
    req,             \* SpecData: the consumer's range and the current call's
    st,              \* SpecData: locals of read_range and _stream_part
    out,             \* SpecData: the bytes the consumer has received
    refresh_tokens,  \* SpecAuth: rows of the refresh_tokens table, by token
    rq               \* SpecAuth: requests of POST /auth/refresh
\* cs[c].rel records how the request stands to release_reader: "caught" when
\* it was inside read_range as its reader was popped, "late" when it entered
\* read_range after that.

poolVars == <<client_pool, client_in_use, lock_held>>
dataVars == <<chunk_cache, parts, req, st, out>>
authVars == <<refresh_tokens, rq>>
vars == <<client_pool, client_in_use, lock_held, held, reader_cache, rd, cs,
          file_id_cache, dataVars, released, authVars>>

Range(s) == {s[i] : i \in DOMAIN s}
Min(a, b) == IF a <= b THEN a ELSE b

\* ------------------------------------------------------- WorkerManager
\* self._client_in_use.get(client_id, False)
InUse(inuse, c) == IF c \in DOMAIN inuse THEN inuse[c] ELSE FALSE

\* The scan of get_available_clients: the first `limit` clients of the pool,
\* in pool order, that are not in use.
AvailableClients(pool, inuse, limit) ==
    LET free == SelectSeq(pool, LAMBDA c : ~InUse(inuse, c))
    IN  SubSeq(free, 1, Min(limit, Len(free)))

\* get_available_clients returning its clients without marking them.
MarkInUseMissing(inuse, clients) == inuse

\* get_available_clients marks what it returns: _client_in_use[id(client)] = True
MarkInUse(inuse, clients) ==
    [c \in DOMAIN inuse \cup Range(clients) |->
        IF c \in Range(clients) THEN TRUE ELSE inuse[c]]

\* try_acquire_one: the first free client of the pool, <<>> for None.
TryAcquireOne(pool, inuse) == AvailableClients(pool, inuse, 1)

\* release_clients: only ids still known to the pool are marked free.
ReleaseClients(inuse, clients) ==
    [c \in DOMAIN inuse |-> IF c \in Range(clients) THEN FALSE ELSE inuse[c]]

\* pool_status()["clients_in_use"]
ClientsInUse(inuse) == Cardinality({c \in DOMAIN inuse : inuse[c]})

\* load_workers: every client that started is appended, free.
PoolInit(max) ==
    /\ \E n \in 1..max : client_pool = [i \in 1..n |-> i]
    /\ client_in_use = [c \in Range(client_pool) |-> FALSE]
    /\ lock_held = FALSE

\* get_best_worker holds _lock across its database awaits.
GetBestWorkerEnter ==
    /\ ~lock_held
    /\ lock_held' = TRUE
    /\ UNCHANGED <<authVars, client_pool, client_in_use, held, reader_cache, rd, cs,
                   file_id_cache, dataVars, released>>

GetBestWorkerExit ==
    /\ lock_held
    /\ lock_held' = FALSE
    /\ UNCHANGED <<authVars, client_pool, client_in_use, held, reader_cache, rd, cs,
                   file_id_cache, dataVars, released>>

\* ------------------------------------------------------------ SpecPool
\* A holder calls get_available_clients(limit) and keeps what it gets.
PoolAcquire(h, limit) ==
    /\ ~lock_held
    /\ LET got == AvailableClients(client_pool, client_in_use, limit)
       IN  /\ got # <<>>
           /\ client_in_use' = MarkInUse(client_in_use, got)
           /\ held' = [held EXCEPT ![h] = @ \o got]
    /\ UNCHANGED <<authVars, client_pool, lock_held, reader_cache, rd, cs,
                   file_id_cache, dataVars, released>>

\* A holder calls try_acquire_one() and appends the client to its lease set.
PoolTryAcquireOne(h) ==
    /\ ~lock_held
    /\ LET got == TryAcquireOne(client_pool, client_in_use)
       IN  /\ got # <<>>
           /\ client_in_use' = MarkInUse(client_in_use, got)
           /\ held' = [held EXCEPT ![h] = @ \o got]
    /\ UNCHANGED <<authVars, client_pool, lock_held, reader_cache, rd, cs,
                   file_id_cache, dataVars, released>>

\* A holder hands back the last k clients of its lease set.
PoolRelease(h, k) ==
    /\ k \in 1..Len(held[h])
    /\ LET n == Len(held[h])
           back == SubSeq(held[h], n - k + 1, n)
       IN  /\ client_in_use' = ReleaseClients(client_in_use, back)
           /\ held' = [held EXCEPT ![h] = SubSeq(@, 1, n - k)]
    /\ UNCHANGED <<authVars, client_pool, lock_held, reader_cache, rd, cs,
                   file_id_cache, dataVars, released>>

\* Every client id the pool, a holder or a reader refers to.
KnownIds == Range(client_pool) \cup UNION {Range(held[h]) : h \in Holders}
            \cup UNION {Range(rd[r].clients) : r \in DOMAIN rd}

\* id() of a client object created now: no id of a live object.
FreshId == IF KnownIds = {} THEN 1
           ELSE 1 + (CHOOSE m \in KnownIds : \A x \in KnownIds : x <= m)

\* Client ids of SpecPool: one more than the largest pool.
MaxPoolIds == MaxPoolClients + 1

\* shutdown that clears the pool and leaves _client_in_use as it is.
ShutdownKeepsMarks ==
    /\ client_pool # <<>>
    /\ client_pool' = <<>>
    /\ UNCHANGED <<authVars, client_in_use, lock_held, held, reader_cache, rd, cs,
                   file_id_cache, dataVars, released>>

\* shutdown: the clients are stopped, then the pool and its marks are
\* cleared; clients that holders were handed stay in their hands.
Shutdown ==
    /\ client_pool # <<>>
    /\ client_pool' = <<>>
    /\ client_in_use' = <<>>
    /\ UNCHANGED <<authVars, lock_held, held, reader_cache, rd, cs,
                   file_id_cache, dataVars, released>>

\* load_workers started one more client: it is appended to the pool, free.
LoadClient ==
    /\ Len(client_pool) < MaxPoolClients
    /\ FreshId <= MaxPoolIds
    /\ client_pool' = Append(client_pool, FreshId)
    /\ client_in_use' = [c \in DOMAIN client_in_use \cup {FreshId} |->
                            IF c = FreshId THEN FALSE ELSE client_in_use[c]]
    /\ UNCHANGED <<authVars, lock_held, held, reader_cache, rd, cs,
                   file_id_cache, dataVars, released>>

\* pool_status()
PoolStatus ==
    LET total == Len(client_pool)
        in_use == ClientsInUse(client_in_use)
    IN  [total_clients |-> total, clients_in_use |-> in_use,
         clients_available |-> total - in_use]

\* pool_pressure(), as the fraction num / den.
PoolPressure(pool, inuse) ==
    IF Len(pool) = 0
    THEN [num |-> 1, den |-> 1]
    ELSE [num |-> ClientsInUse(inuse), den |-> Len(pool)]


\* ------------------------------------------------- reader.py, manager.py
\* limit passed to get_available_clients by _ensure_workers
EnsureLimit == 3

\* VirtualStreamReader.__init__ creates no _active_streams attribute, and no
\* other code of the repository assigns one: reading reader._active_streams
\* raises AttributeError.
HasActiveStreams == FALSE

\* A handle is named after the client (session) that minted it; 0 is the
\* telegram_file_id loaded from the database. One media item is streamed.
NewReader ==
    [made |-> FALSE, clients |-> <<>>, batch |-> FALSE, rr |-> 0,
     persistent |-> FALSE, force_released |-> FALSE,
     file_id |-> [p \in Parts |-> 0]]

IdleCall ==
    [stage |-> "idle", mode |-> "range", reader |-> 0, part |-> 0, last |-> 0,
     i |-> 0, client |-> 0, rpc |-> 0, file_id |-> 0, rel |-> "no"]

\* The state one coroutine step reads and writes; the steps below are
\* functions on it, chained where the code runs on without suspending.
World == [rd |-> rd, cs |-> cs, inuse |-> client_in_use, fic |-> file_id_cache]

Commit(w) ==
    /\ rd' = w.rd
    /\ cs' = w.cs
    /\ client_in_use' = w.inuse
    /\ file_id_cache' = w.fic

\* _release_workers that forgets the clients without release_clients.
ReleaseWorkersNoPool(w, r) ==
    IF w.rd[r].batch THEN w ELSE [w EXCEPT !.rd[r].clients = <<>>]

\* _release_workers
ReleaseWorkers(w, r) ==
    IF w.rd[r].batch
    THEN w
    ELSE [w EXCEPT !.inuse = ReleaseClients(w.inuse, w.rd[r].clients),
                   !.rd[r].clients = <<>>]

\* The finally block of read_range; `how` is done, failed or cancelled.
Finally(w, c, how) ==
    LET r == w.cs[c].reader
        v == [w EXCEPT !.cs[c] = [IdleCall EXCEPT !.stage = how, !.reader = r]]
    IN  IF v.rd[r].batch THEN v ELSE ReleaseWorkers(v, r)

\* _stream_part entered for part p: file_id is read from the part object;
\* a cached chunk is yielded, otherwise client.stream_media is called.
\* `hit` is the answer of _get_cached_chunk: in Spec the chunk cache is part
\* of the environment (other requests fill it, its TTL empties it).
StreamBegin(w, c, p, hit) ==
    LET r == w.cs[c].reader
        fid == w.rd[r].file_id[p]
    IN  IF hit
        THEN [w EXCEPT !.cs[c].stage = "yield", !.cs[c].part = p]
        ELSE [w EXCEPT !.cs[c].stage = "fetch", !.cs[c].part = p,
                       !.cs[c].file_id = fid]

\* _ensure_file_ids_for_client from part p on: cached entries are copied to
\* the part object without suspending; the first miss awaits a refresh.
RECURSIVE EnsureFrom(_, _, _, _)
EnsureFrom(w, c, p, hit) ==
    LET r == w.cs[c].reader
        cl == w.cs[c].client
    IN  IF p > NumParts
        THEN StreamBegin([w EXCEPT !.cs[c].i = 0, !.cs[c].rpc = 0], c,
                         w.cs[c].part, hit)
        ELSE IF w.fic[<<p, cl>>] # 0
             THEN EnsureFrom([w EXCEPT !.rd[r].file_id[p] = w.fic[<<p, cl>>]],
                             c, p + 1, hit)
             ELSE [w EXCEPT !.cs[c].stage = "ens", !.cs[c].i = p,
                            !.cs[c].rpc = 0]

\* Round-robin selection of the client of this range request.
SelectClient(w, c, hit) ==
    LET r == w.cs[c].reader
        cl == w.rd[r].clients
    IN  IF cl = <<>>
        THEN Finally(w, c, "failed")
        ELSE EnsureFrom([w EXCEPT !.rd[r].rr = @ + 1,
                                  !.cs[c].client = cl[(w.rd[r].rr % Len(cl)) + 1]],
                        c, 1, hit)

\* What follows _refresh_all_file_ids: batch_mode sets its flag and yields
\* to the scope, read_range selects its client.
AfterRefreshAll(w, c, hit) ==
    IF w.cs[c].mode = "batch"
    THEN [w EXCEPT !.rd[w.cs[c].reader].batch = TRUE, !.cs[c].stage = "scope",
                   !.cs[c].i = 0, !.cs[c].rpc = 0]
    ELSE SelectClient(w, c, hit)

\* The second loop of _refresh_all_file_ids from part p on; the cache is
\* read under the key part.id, which nothing writes, so every part is
\* refreshed through _refresh_file_id(part) on self._clients[0].
RefreshAllFrom(w, c, p, hit) ==
    LET r == w.cs[c].reader
    IN  IF p > NumParts \/ w.rd[r].clients = <<>>
        THEN AfterRefreshAll(w, c, hit)
        ELSE [w EXCEPT !.cs[c].stage = "ra", !.cs[c].i = p,
                       !.cs[c].rpc = w.rd[r].clients[1]]

\* _ensure_workers failed: read_range raises inside its try, batch_mode
\* raises before its try.
NoWorkers(w, c) ==
    IF w.cs[c].mode = "batch"
    THEN [w EXCEPT !.cs[c] = [IdleCall EXCEPT !.stage = "failed",
                                              !.mode = "batch",
                                              !.reader = w.cs[c].reader]]
    ELSE Finally(w, c, "failed")

\* get_available_clients(limit=3) once the pool lock is taken.
AcquireWorkers(w, c) ==
    LET r == w.cs[c].reader
        got == AvailableClients(client_pool, w.inuse, EnsureLimit)
    IN  IF got = <<>>
        THEN NoWorkers(w, c)
        ELSE [w EXCEPT !.inuse = MarkInUse(w.inuse, got),
                       !.rd[r].clients = got,
                       !.cs[c].stage = "populate"]

\* _ensure_workers followed by the start of _refresh_all_file_ids, which
\* awaits _populate_peer_cache.
EnsureWorkers(w, c) ==
    LET r == w.cs[c].reader
    IN  IF w.rd[r].clients # <<>>
        THEN [w EXCEPT !.cs[c].stage = "populate"]
        ELSE IF lock_held
             THEN [w EXCEPT !.cs[c].stage = "waitlock"]
             ELSE AcquireWorkers(w, c)


Suspended == {"waitlock", "populate", "ra", "ens", "fetch", "rf", "yield"}
Ended == {"done", "failed", "cancelled"}

restVars == <<client_pool, lock_held, held, dataVars, released>>

\* manager.get_virtual_reader up to its await: a persistent request that
\* finds the media id in _reader_cache returns the cached reader; every
\* other request awaits the catalog query.
GetReader(c, persistent) ==
    /\ cs[c].stage = "idle"
    /\ IF persistent /\ reader_cache # 0
       THEN cs' = [cs EXCEPT ![c].stage = "new", ![c].reader = reader_cache]
       ELSE cs' = [cs EXCEPT ![c].stage = IF persistent THEN "dbp" ELSE "db"]
    /\ UNCHANGED <<authVars, client_pool, client_in_use, lock_held, held, reader_cache,
                   rd, file_id_cache, dataVars, released>>

\* The catalog query returned: a new reader is constructed and, for a
\* persistent request, stored in _reader_cache.
GetReaderDone(c) ==
    /\ cs[c].stage \in {"db", "dbp"}
    /\ rd' = [rd EXCEPT ![c].made = TRUE,
                        ![c].persistent = (cs[c].stage = "dbp")]
    /\ reader_cache' = IF cs[c].stage = "dbp" THEN c ELSE reader_cache
    /\ cs' = [cs EXCEPT ![c].stage = "new", ![c].reader = c]
    /\ UNCHANGED <<authVars, client_pool, client_in_use, lock_held, held,
                   file_id_cache, dataVars, released>>

\* A task started inside the batch scope of reader r gets the reader.
JoinScope(c, r) ==
    /\ cs[c].stage = "idle"
    /\ rd[r].batch
    /\ cs[r].stage = "scope"
    /\ cs' = [cs EXCEPT ![c].stage = "new", ![c].reader = r]
    /\ UNCHANGED <<authVars, client_pool, client_in_use, lock_held, held, reader_cache,
                   rd, file_id_cache, dataVars, released>>

\* read_range(start, end) with start >= end after clamping returns at once.
ReadRangeEmpty(c) ==
    /\ cs[c].stage = "new"
    /\ cs' = [cs EXCEPT ![c].stage = "done"]
    /\ UNCHANGED <<authVars, client_pool, client_in_use, lock_held, held, reader_cache,
                   rd, file_id_cache, dataVars, released>>

\* read_range over the parts first..last, up to its first suspension.
ReadRangeStart(c, first, last, hit) ==
    /\ cs[c].stage = "new"
    /\ first <= last
    /\ LET w == [World EXCEPT !.cs[c].part = first, !.cs[c].last = last,
                              !.cs[c].rel = IF cs[c].reader \in released
                                            THEN "late" ELSE "no"]
       IN  Commit(IF rd[cs[c].reader].batch
                  THEN SelectClient(w, c, hit)
                  ELSE EnsureWorkers(w, c))
    /\ UNCHANGED <<authVars, reader_cache, restVars>>

\* batch_mode() entered by the request that constructed the reader.
BatchEnter(c) ==
    /\ cs[c].stage = "new"
    /\ cs[c].reader = c
    /\ ~rd[c].persistent
    /\ ~rd[c].batch
    /\ Commit(EnsureWorkers([World EXCEPT !.cs[c].mode = "batch"], c))
    /\ UNCHANGED <<authVars, reader_cache, restVars>>

\* The pool lock is granted to a waiting get_available_clients.
LockGranted(c) ==
    /\ cs[c].stage = "waitlock"
    /\ ~lock_held
    /\ Commit(AcquireWorkers(World, c))
    /\ UNCHANGED <<authVars, reader_cache, restVars>>

\* _populate_peer_cache returned; the refresh loop starts.
PopulateDone(c) ==
    /\ cs[c].stage = "populate"
    /\ Commit(RefreshAllFrom(World, c, 1, FALSE))
    /\ UNCHANGED <<authVars, reader_cache, restVars>>

\* _refresh_file_id(part) of _refresh_all_file_ids returned: on success the
\* part object carries the handle minted on the client the call was sent on.
RefreshAllDone(c, ok, hit) ==
    /\ cs[c].stage = "ra"
    /\ LET r == cs[c].reader
           w == IF ok
                THEN [World EXCEPT !.rd[r].file_id[cs[c].i] = cs[c].rpc]
                ELSE World
       IN  Commit(RefreshAllFrom(w, c, cs[c].i + 1, hit))
    /\ UNCHANGED <<authVars, reader_cache, restVars>>

\* _refresh_file_id(part, client=client) of _ensure_file_ids_for_client
\* returned: on success the part object and the cache entry (part, client)
\* carry the new handle.
EnsureDone(c, ok, hit) ==
    /\ cs[c].stage = "ens"
    /\ LET r == cs[c].reader
           p == cs[c].i
           cl == cs[c].client
           w == IF ok
                THEN [World EXCEPT !.rd[r].file_id[p] = cl,
                                   !.fic[<<p, cl>>] = cl]
                ELSE World
       IN  Commit(EnsureFrom(w, c, p + 1, hit))
    /\ UNCHANGED <<authVars, reader_cache, restVars>>

\* stream_media delivered the chunk: it is cached and yielded.
FetchChunk(c) ==
    /\ cs[c].stage = "fetch"
    /\ cs' = [cs EXCEPT ![c].stage = "yield", ![c].file_id = 0]
    /\ UNCHANGED <<authVars, client_pool, client_in_use, lock_held, held, reader_cache,
                   rd, file_id_cache, dataVars, released>>

\* FileReferenceExpired, or the third consecutive early end of the stream:
\* the cache entry (part, client) is invalidated and the handle refreshed.
FetchRefresh(c) ==
    /\ cs[c].stage = "fetch"
    /\ file_id_cache' = [file_id_cache EXCEPT ![<<cs[c].part, cs[c].client>>] = 0]
    /\ cs' = [cs EXCEPT ![c].stage = "rf"]
    /\ UNCHANGED <<authVars, client_pool, client_in_use, lock_held, held, reader_cache,
                   rd, dataVars, released>>

\* The refresh inside _stream_part returned: with a handle the fetch is
\* repeated, without one RuntimeError is raised.
FetchRefreshDone(c, ok) ==
    /\ cs[c].stage = "rf"
    /\ LET r == cs[c].reader
       IN  Commit(IF ok
                  THEN [World EXCEPT !.rd[r].file_id[cs[c].part] = cs[c].client,
                                     !.cs[c].file_id = cs[c].client,
                                     !.cs[c].stage = "fetch"]
                  ELSE Finally(World, c, "failed"))
    /\ UNCHANGED <<authVars, reader_cache, restVars>>

\* stream_media raised FloodWait: the request sleeps e.value seconds inside
\* the except clause. Nothing is told to the pool: handle_flood_wait has no
\* caller, and the pool keeps no state per worker account.
FetchFloodWait(c) ==
    /\ cs[c].stage = "fetch"
    /\ cs' = [cs EXCEPT ![c].stage = "flood"]
    /\ UNCHANGED <<authVars, client_pool, client_in_use, lock_held, held, reader_cache,
                   rd, file_id_cache, dataVars, released>>

\* The sleep is over: the loop continues with the next stream_media call.
FloodWake(c) ==
    /\ cs[c].stage = "flood"
    /\ cs' = [cs EXCEPT ![c].stage = "fetch"]
    /\ UNCHANGED <<authVars, client_pool, client_in_use, lock_held, held, reader_cache,
                   rd, file_id_cache, dataVars, released>>

\* An error that is not retried, or the retries are used up.
FetchFail(c) ==
    /\ cs[c].stage = "fetch"
    /\ Commit(Finally(World, c, "failed"))
    /\ UNCHANGED <<authVars, reader_cache, restVars>>

\* The consumer asks for the next blob: the part is complete, the loop of
\* read_range goes to the next part or ends.
Resume(c, hit) ==
    /\ cs[c].stage = "yield"
    /\ Commit(IF cs[c].part >= cs[c].last
              THEN Finally(World, c, "done")
              ELSE StreamBegin(World, c, cs[c].part + 1, hit))
    /\ UNCHANGED <<authVars, reader_cache, restVars>>

\* CancelledError or GeneratorExit at a suspension point. batch_mode has no
\* try block around its acquisition and refresh.
Cancel(c) ==
    /\ cs[c].stage \in Suspended
    /\ Commit(IF cs[c].mode = "batch"
              THEN [World EXCEPT !.cs[c] = [IdleCall EXCEPT !.stage = "cancelled",
                                                         !.mode = "batch",
                                                         !.reader = cs[c].reader]]
              ELSE Finally(World, c, "cancelled"))
    /\ UNCHANGED <<authVars, reader_cache, restVars>>

\* The batch scope is left once the tasks gathered inside it have ended.
BatchExit(c) ==
    /\ cs[c].stage = "scope"
    /\ \A d \in Calls : cs[d].reader = c /\ d # c => cs[d].stage \in Ended
    /\ Commit(ReleaseWorkers(
           [World EXCEPT !.rd[c].batch = FALSE,
                         !.cs[c] = [IdleCall EXCEPT !.stage = "done",
                                                    !.mode = "batch",
                                                    !.reader = c]],
           c))
    /\ UNCHANGED <<authVars, reader_cache, restVars>>

\* manager.release_reader: the entry is popped, then reader._active_streams
\* is read. Only a reader with that attribute gets its flags set and its
\* clients released.
ReleaseReader ==
    /\ reader_cache # 0
    /\ reader_cache' = 0
    /\ released' = released \cup {reader_cache}
    /\ LET r == reader_cache
       IN  IF HasActiveStreams
           THEN /\ rd' = [rd EXCEPT ![r].persistent = FALSE,
                                    ![r].force_released = TRUE,
                                    ![r].clients = <<>>]
                /\ client_in_use' = ReleaseClients(client_in_use, rd[r].clients)
           ELSE UNCHANGED <<rd, client_in_use>>
    /\ cs' = [c \in Calls |->
                IF cs[c].reader = reader_cache /\ cs[c].stage \in Suspended
                THEN [cs[c] EXCEPT !.rel = "caught"] ELSE cs[c]]
    /\ UNCHANGED <<authVars, client_pool, lock_held, held, file_id_cache, dataVars>>

NoRequest == [s |-> 0, e |-> 0, lo |-> 0, hi |-> 0]

IdleRange ==
    [pc |-> "idle", current_offset |-> 0, bytes_read |-> 0, part |-> 0,
     offset |-> 0, length |-> 0, bytes_yielded |-> 0, idx |-> 0,
     skip_bytes |-> 0, cache_hits |-> 0, next_chunk_to_fetch |-> 0,
     chunks_remaining |-> 0, skip_bytes_for_fetch |-> 0, attempt |-> 0,
     consecutive_failures |-> 0, file_id |-> 0]

\* No lease, no reader, no request, no cached handle.
InitControl ==
    /\ held = [h \in Holders |-> <<>>]
    /\ reader_cache = 0
    /\ rd = [r \in Readers |-> NewReader]
    /\ cs = [c \in Calls |-> IdleCall]
    /\ file_id_cache = [k \in Parts \X ClientIds |-> 0]
    /\ released = {}

\* Requests of SpecAuth.
NumAuthReqs == 3
AuthReqs == 1..NumAuthReqs
\* Refresh tokens that can be issued in SpecAuth, the login's included.
MaxTokens == 4

IdleRefresh == [pc |-> "idle", token |-> 0, issued |-> 0]

\* Every specification but SpecAuth leaves the token table alone.
InitNoAuth ==
    /\ refresh_tokens = <<>>
    /\ rq = [q \in AuthReqs |-> IdleRefresh]

\* Spec and SpecPool leave the bytes to SpecData.
InitNoData ==
    /\ chunk_cache = <<>>
    /\ parts = <<>>
    /\ req = NoRequest
    /\ st = IdleRange
    /\ out = <<>>

Init == PoolInit(MaxClients) /\ InitControl /\ InitNoData /\ InitNoAuth

InitPool == PoolInit(MaxPoolClients) /\ InitControl /\ InitNoData /\ InitNoAuth

Next ==
    \/ GetBestWorkerEnter
    \/ GetBestWorkerExit
    \/ ReleaseReader
    \/ \E c \in Calls :
        \/ \E persistent \in BOOLEAN : GetReader(c, persistent)
        \/ GetReaderDone(c)
        \/ \E r \in Readers : JoinScope(c, r)
        \/ ReadRangeEmpty(c)
        \/ \E first, last \in Parts, hit \in BOOLEAN :
              ReadRangeStart(c, first, last, hit)
        \/ BatchEnter(c)
        \/ LockGranted(c)
        \/ PopulateDone(c)
        \/ \E ok, hit \in BOOLEAN : RefreshAllDone(c, ok, hit)
        \/ \E ok, hit \in BOOLEAN : EnsureDone(c, ok, hit)
        \/ FetchChunk(c)
        \/ FetchRefresh(c)
        \/ \E ok \in BOOLEAN : FetchRefreshDone(c, ok)
        \/ FetchFail(c)
        \/ \E hit \in BOOLEAN : Resume(c, hit)
        \/ Cancel(c)
        \/ BatchExit(c)

Spec == Init /\ [][Next]_vars

PoolNext ==
    \/ GetBestWorkerEnter
    \/ GetBestWorkerExit
    \/ \E h \in Holders :
        \/ \E limit \in 1..EnsureLimit : PoolAcquire(h, limit)
        \/ PoolTryAcquireOne(h)
        \/ \E k \in 1..MaxPoolClients : PoolRelease(h, k)
    \/ Shutdown
    \/ LoadClient

SpecPool == InitPool /\ [][PoolNext]_vars


\* ------------------------------------------------------------ SpecData
\* The bytes of read_range: one consumer reads [req.s, req.e) through
\* successive read_range(lo, hi) calls on a reader whose client is selected.
\* Chunk size and cache capacity of the model (the program's are 1 MiB, 50).
ChunkSize == 2
ChunkCacheMax == 2
\* Largest file_size of a part, and the number of parts, in SpecData.
MaxPartSize == 3
NumDataParts == 2
\* _stream_part
max_retries == 5
max_consecutive_failures == 3

\* A byte of the media item is named by its part and its offset in the part.
PartContent(p) == [k \in 1..parts[p] |-> <<p, k - 1>>]

RECURSIVE ContentFrom(_)
ContentFrom(p) ==
    IF p > Len(parts) THEN <<>> ELSE PartContent(p) \o ContentFrom(p + 1)

\* The parts' contents concatenated in part order.
Content == ContentFrom(1)

\* MediaPart.start_byte / end_byte as the scanner lays them out.
RECURSIVE start_byte(_)
start_byte(p) == IF p = 1 THEN 0 ELSE start_byte(p - 1) + parts[p - 1]

end_byte(p) == start_byte(p) + parts[p]

\* sum(p.file_size for p in self._parts)
total_size == IF parts = <<>> THEN 0 ELSE end_byte(Len(parts))

contains_byte(p, byte_offset) ==
    start_byte(p) <= byte_offset /\ byte_offset < end_byte(p)

local_offset(p, global_offset) == global_offset - start_byte(p)

\* _find_part_for_offset: the first part, in part order, that contains the
\* offset; 0 for None.
find_part_for_offset(byte_offset) ==
    LET ps == {p \in 1..Len(parts) : contains_byte(p, byte_offset)}
    IN  IF byte_offset < 0 \/ byte_offset >= total_size \/ ps = {}
        THEN 0
        ELSE CHOOSE p \in ps : \A q \in ps : p <= q

\* client.stream_media: chunk q of a part is its bytes
\* [q * ChunkSize, min((q + 1) * ChunkSize, file_size)).
BackendChunk(p, q) ==
    SubSeq(PartContent(p), q * ChunkSize + 1, Min((q + 1) * ChunkSize, parts[p]))

ChunkExists(p, q) == q * ChunkSize < parts[p]

\* _get_cached_chunk that looks the chunk index up in any part.
get_cached_chunk_any_part(cache, part_id, chunk_index) ==
    LET found == SelectSeq(cache, LAMBDA en : en.key[2] = chunk_index)
    IN  IF found = <<>> THEN <<>> ELSE found[1].data

\* _get_cached_chunk; <<>> for None (entries past their TTL are removed by
\* ChunkExpire).
get_cached_chunk(cache, part_id, chunk_index) ==
    LET found == SelectSeq(cache, LAMBDA en : en.key = <<part_id, chunk_index>>)
    IN  IF found = <<>> THEN <<>> ELSE found[1].data

\* A _cache_chunk that never evicts.
cache_chunk_unbounded(cache, part_id, chunk_index, data) ==
    Append(SelectSeq(cache, LAMBDA en : en.key # <<part_id, chunk_index>>),
           [key |-> <<part_id, chunk_index>>, data |-> data])

\* _cache_chunk: while the cache is full the oldest entry goes, then the
\* entry is written with the newest timestamp.
cache_chunk(cache, part_id, chunk_index, data) ==
    LET n == Len(cache)
        kept == IF n >= ChunkCacheMax
                THEN SubSeq(cache, n - ChunkCacheMax + 2, n)
                ELSE cache
        others == SelectSeq(kept, LAMBDA en : en.key # <<part_id, chunk_index>>)
    IN  Append(others, [key |-> <<part_id, chunk_index>>, data |-> data])

\* The skip / truncate code without its truncation to `length`.
ClipNoTruncate(chunk, skip, bytes_yielded, length) ==
    IF skip > 0 /\ Len(chunk) <= skip
    THEN [skip |-> skip - Len(chunk), emit |-> FALSE, data |-> <<>>]
    ELSE LET c1 == IF skip > 0 THEN SubSeq(chunk, skip + 1, Len(chunk)) ELSE chunk
         IN  [skip |-> 0, emit |-> c1 # <<>>, data |-> c1]

\* The skip / truncate code both phases of _stream_part apply to a chunk:
\* what is left to skip, whether a yield is executed, and the bytes yielded.
Clip(chunk, skip, bytes_yielded, length) ==
    IF skip > 0 /\ Len(chunk) <= skip
    THEN [skip |-> skip - Len(chunk), emit |-> FALSE, data |-> <<>>]
    ELSE LET c1 == IF skip > 0 THEN SubSeq(chunk, skip + 1, Len(chunk)) ELSE chunk
         IN  [skip |-> 0, emit |-> c1 # <<>>,
              data |-> IF bytes_yielded + Len(c1) > length
                       THEN SubSeq(c1, 1, length - bytes_yielded)
                       ELSE c1]

initial_chunk_offset(s) == s.offset \div ChunkSize
initial_skip_bytes(s) == s.offset % ChunkSize
\* A chunk count that rounds down.
total_chunks_rounded_down(s) == (s.length + (s.offset % ChunkSize)) \div ChunkSize

total_chunks_needed(s) ==
    (s.length + initial_skip_bytes(s) + ChunkSize - 1) \div ChunkSize

\* _stream_part is left for the loop of read_range: its locals are dropped
\* (cache_hits, attempt and file_id stay readable until the next part is
\* entered).
Return(s) ==
    [IdleRange EXCEPT !.pc = "loop", !.current_offset = s.current_offset,
                      !.bytes_read = s.bytes_read, !.cache_hits = s.cache_hits,
                      !.attempt = s.attempt, !.file_id = s.file_id]

\* read_range receives a chunk from _stream_part: it yields it to the
\* consumer, advances, and breaks once current_offset reaches end;
\* _stream_part, resumed, returns once bytes_yielded reaches length.
AfterYield(s, data) ==
    LET t == [s EXCEPT !.bytes_yielded = @ + Len(data),
                       !.current_offset = @ + Len(data),
                       !.bytes_read = @ + Len(data)]
    IN  IF t.current_offset >= req.hi \/ t.bytes_yielded >= t.length
        THEN Return(t)
        ELSE t

\* A retry loop that tests attempt <= max_retries.
RetryOnceMore(s) ==
    IF s.attempt <= max_retries
    THEN [s EXCEPT !.pc = "stream"]
    ELSE [s EXCEPT !.pc = "failed"]

\* `continue` of the retry loop: while attempt < max_retries, else the
\* RuntimeError after the loop.
Retry(s) ==
    IF s.attempt < max_retries
    THEN [s EXCEPT !.pc = "stream"]
    ELSE [s EXCEPT !.pc = "failed"]

leaseVars == <<client_pool, client_in_use, lock_held, held, reader_cache, rd,
               cs, released>>
ctlVars == <<leaseVars, file_id_cache>>

\* The client read_range selects in SpecData, whose pool has one client.
DataClient == 1

\* An invalidation that leaves the cache as it is.
keep_file_id_cache(fic, p, cl) == fic

\* invalidate_file_id_cache(part.id, client_id=id(client)).
invalidate_file_id_cache(fic, p, cl) == [fic EXCEPT ![<<p, cl>>] = 0]

\* _ensure_file_ids_for_client(client) with every refresh answered: each
\* part has an entry under the key (part, client) afterwards.
ensure_file_ids_for_client(fic, cl) ==
    [k \in DOMAIN fic |->
        IF k[2] = cl /\ k[1] \in DOMAIN parts /\ fic[k] = 0 THEN cl ELSE fic[k]]

\* The consumer calls read_range(req.hi, hi) for the next piece of its range.
RangeStart(hi) ==
    /\ st.pc = "idle"
    /\ hi \in (req.hi + 1)..req.e
    /\ req' = [req EXCEPT !.lo = req.hi, !.hi = hi]
    /\ st' = [IdleRange EXCEPT !.pc = "loop", !.current_offset = req.hi]
    /\ file_id_cache' = ensure_file_ids_for_client(file_id_cache, DataClient)
    /\ UNCHANGED <<authVars, leaseVars, chunk_cache, parts, out>>

\* The while loop of read_range: the part of current_offset is found and
\* _stream_part entered, or the loop is left and read_range ends.
RangeLoop ==
    /\ st.pc = "loop"
    /\ LET pos == find_part_for_offset(st.current_offset)
           off == local_offset(pos, st.current_offset)
       IN  st' = IF st.current_offset < req.hi /\ pos # 0
                 THEN [IdleRange EXCEPT
                          !.pc = "cache",
                          !.current_offset = st.current_offset,
                          !.bytes_read = st.bytes_read,
                          !.part = pos,
                          !.offset = off,
                          !.length = Min(parts[pos] - off,
                                         req.hi - st.current_offset),
                          !.idx = off \div ChunkSize,
                          !.skip_bytes = off % ChunkSize]
                 ELSE [st EXCEPT !.pc = "rdone"]
    /\ UNCHANGED <<authVars, ctlVars, chunk_cache, parts, req, out>>

\* A phase 1 after which the fetch starts at the first chunk of the
\* request, whatever was served from the cache.
CachePhaseRefetches ==
    /\ st.pc = "cache"
    /\ LET cached == get_cached_chunk(chunk_cache, st.part, st.idx)
           more == st.idx < initial_chunk_offset(st) + total_chunks_needed(st)
           cl == Clip(cached, st.skip_bytes, st.bytes_yielded, st.length)
           s1 == [st EXCEPT !.cache_hits = @ + 1, !.idx = @ + 1,
                            !.skip_bytes = cl.skip]
       IN  IF more /\ cached # <<>>
           THEN IF cl.emit
                THEN /\ st' = AfterYield(s1, cl.data)
                     /\ out' = out \o cl.data
                ELSE /\ st' = s1
                     /\ out' = out
           ELSE /\ out' = out
                /\ st' = IF st.bytes_yielded >= st.length
                         THEN Return(st)
                         ELSE Retry([st EXCEPT
                                 !.next_chunk_to_fetch =
                                     initial_chunk_offset(st),
                                 !.chunks_remaining =
                                     total_chunks_needed(st),
                                 !.skip_bytes_for_fetch =
                                     IF st.cache_hits = 0
                                     THEN initial_skip_bytes(st) ELSE 0,
                                 !.idx = 0, !.skip_bytes = 0])
    /\ UNCHANGED <<authVars, ctlVars, chunk_cache, parts, req>>

\* Phase 1 of _stream_part, one index of its loop: a cached chunk is
\* served; the first miss, or the end of the loop, leads to phase 2.
CachePhase ==
    /\ st.pc = "cache"
    /\ LET cached == get_cached_chunk(chunk_cache, st.part, st.idx)
           more == st.idx < initial_chunk_offset(st) + total_chunks_needed(st)
           cl == Clip(cached, st.skip_bytes, st.bytes_yielded, st.length)
           s1 == [st EXCEPT !.cache_hits = @ + 1, !.idx = @ + 1,
                            !.skip_bytes = cl.skip]
       IN  IF more /\ cached # <<>>
           THEN IF cl.emit
                THEN /\ st' = AfterYield(s1, cl.data)
                     /\ out' = out \o cl.data
                ELSE /\ st' = s1
                     /\ out' = out
           ELSE /\ out' = out
                /\ st' = IF st.bytes_yielded >= st.length
                         THEN Return(st)
                         ELSE Retry([st EXCEPT
                                 !.next_chunk_to_fetch =
                                     initial_chunk_offset(st) + st.cache_hits,
                                 !.chunks_remaining =
                                     total_chunks_needed(st) - st.cache_hits,
                                 !.skip_bytes_for_fetch =
                                     IF st.cache_hits = 0
                                     THEN initial_skip_bytes(st) ELSE 0,
                                 !.idx = 0, !.skip_bytes = 0])
    /\ UNCHANGED <<authVars, ctlVars, chunk_cache, parts, req>>

\* client.stream_media yields the next chunk: it is cached, clipped and
\* yielded.
StreamChunk ==
    /\ st.pc = "stream"
    /\ st.chunks_remaining > 0
    /\ ChunkExists(st.part, st.next_chunk_to_fetch)
    /\ LET chunk == BackendChunk(st.part, st.next_chunk_to_fetch)
           cl == Clip(chunk, st.skip_bytes_for_fetch, st.bytes_yielded,
                      st.length)
           s1 == [st EXCEPT !.next_chunk_to_fetch = @ + 1,
                            !.chunks_remaining = @ - 1,
                            !.skip_bytes_for_fetch = cl.skip]
       IN  /\ chunk_cache' = cache_chunk(chunk_cache, st.part,
                                         st.next_chunk_to_fetch, chunk)
           /\ IF cl.emit
              THEN /\ st' = AfterYield(s1, cl.data)
                   /\ out' = out \o cl.data
              ELSE /\ st' = s1
                   /\ out' = out
    /\ UNCHANGED <<authVars, ctlVars, parts, req>>

\* An early end of the stream after which the fetch starts over at the
\* first chunk of the request.
StreamEndRewinds(ok) ==
    /\ st.pc = "stream"
    /\ st' = IF st.chunks_remaining > 0
             THEN Retry([st EXCEPT
                            !.attempt = @ + 1,
                            !.chunks_remaining = total_chunks_needed(st),
                            !.next_chunk_to_fetch = initial_chunk_offset(st)])
             ELSE Return(st)
    /\ UNCHANGED <<authVars, ctlVars, chunk_cache, parts, req, out>>

\* The stream_media iterator ends: with chunks still expected the attempt
\* is incomplete (the third one invalidates and refreshes the handle, `ok`
\* telling whether that succeeds), otherwise _stream_part returns.
StreamEnd(ok) ==
    /\ st.pc = "stream"
    /\ LET cf == st.consecutive_failures + 1
           refresh == st.chunks_remaining > 0 /\ cf >= max_consecutive_failures
       IN  /\ st' = IF st.chunks_remaining > 0
                    THEN IF cf >= max_consecutive_failures
                         THEN IF ok
                              THEN Retry([st EXCEPT !.consecutive_failures = 0,
                                                    !.attempt = @ + 1,
                                                    !.file_id = @ + 1])
                              ELSE [st EXCEPT !.pc = "failed"]
                         ELSE Retry([st EXCEPT !.consecutive_failures = cf])
                    ELSE Return(st)
           /\ file_id_cache' =
                  IF refresh
                  THEN invalidate_file_id_cache(file_id_cache, st.part, DataClient)
                  ELSE file_id_cache
    /\ UNCHANGED <<authVars, leaseVars, chunk_cache, parts, req, out>>

\* The exceptions client.stream_media raises into the retry loop, by the
\* except clause that takes them: FloodWait, FileReferenceExpired, any
\* other RPCError, a session desync or timeout, a transport error (an
\* OSError that is no TimeoutError), any other exception.
ErrorKinds ==
    {"FloodWait", "FileReferenceExpired", "RPCError", "TimeoutError",
     "OSError", "Exception"}

\* client.stream_media raises an exception of kind k.
StreamRaise(k) ==
    /\ st.pc = "stream"
    /\ st' = [st EXCEPT !.pc = k]
    /\ UNCHANGED <<authVars, ctlVars, chunk_cache, parts, req, out>>

\* A FloodWait handler that sleeps and continues without counting.
HandleFloodWaitUncounted ==
    /\ st.pc = "FloodWait"
    /\ st' = Retry(st)
    /\ UNCHANGED <<authVars, ctlVars, chunk_cache, parts, req, out>>

\* except RPCError, FloodWait: the attempt is counted, the wait slept, the
\* loop continued.
HandleFloodWait ==
    /\ st.pc = "FloodWait"
    /\ st' = Retry([st EXCEPT !.attempt = @ + 1])
    /\ UNCHANGED <<authVars, ctlVars, chunk_cache, parts, req, out>>

\* except RPCError, FileReferenceExpired: the attempt is counted, the cache
\* entry (part, client) deleted and _refresh_file_id(part, client) awaited.
HandleExpired ==
    /\ st.pc = "FileReferenceExpired"
    /\ st' = [st EXCEPT !.attempt = @ + 1, !.pc = "refresh"]
    /\ file_id_cache' =
           invalidate_file_id_cache(file_id_cache, st.part, DataClient)
    /\ UNCHANGED <<authVars, leaseVars, chunk_cache, parts, req, out>>

\* A refresh that forgets the position: the fetch starts over at the first
\* chunk of the request.
RefreshDoneFromStart(ok) ==
    /\ st.pc = "refresh"
    /\ st' = IF ok
             THEN Retry([st EXCEPT
                            !.file_id = @ + 1,
                            !.chunks_remaining =
                                @ + st.next_chunk_to_fetch
                                  - initial_chunk_offset(st),
                            !.next_chunk_to_fetch = initial_chunk_offset(st)])
             ELSE [st EXCEPT !.pc = "failed"]
    /\ UNCHANGED <<authVars, ctlVars, chunk_cache, parts, req, out>>

\* _refresh_file_id returned: with a handle the loop continues at
\* next_chunk_to_fetch, without one RuntimeError is raised.
RefreshDone(ok) ==
    /\ st.pc = "refresh"
    /\ st' = IF ok
             THEN Retry([st EXCEPT !.file_id = @ + 1])
             ELSE [st EXCEPT !.pc = "failed"]
    /\ UNCHANGED <<authVars, ctlVars, chunk_cache, parts, req, out>>

\* A retry after a timeout that starts over at the first chunk of the
\* request.
HandleTransientFromStart ==
    /\ st.pc = "TimeoutError"
    /\ st' = Retry([st EXCEPT
                       !.attempt = @ + 1,
                       !.chunks_remaining =
                           @ + st.next_chunk_to_fetch - initial_chunk_offset(st),
                       !.next_chunk_to_fetch = initial_chunk_offset(st)])
    /\ UNCHANGED <<authVars, ctlVars, chunk_cache, parts, req, out>>

\* except AttributeError (session desync) and except TimeoutError: the
\* attempt is counted; below max_retries the loop continues after a sleep,
\* otherwise the exception is raised.
HandleTransient ==
    /\ st.pc = "TimeoutError"
    /\ st' = Retry([st EXCEPT !.attempt = @ + 1])
    /\ UNCHANGED <<authVars, ctlVars, chunk_cache, parts, req, out>>

\* An unknown error that is taken for a transient one.
HandleOtherRetries ==
    /\ st.pc \in {"RPCError", "OSError", "Exception"}
    /\ st' = Retry([st EXCEPT !.attempt = @ + 1])
    /\ UNCHANGED <<authVars, ctlVars, chunk_cache, parts, req, out>>

\* Any other RPCError (counted, then raised) and any other exception, an
\* OSError included (raised by `except Exception`): the error leaves
\* _stream_part and read_range.
HandleOther ==
    /\ st.pc \in {"RPCError", "OSError", "Exception"}
    /\ st' = [st EXCEPT !.pc = "failed",
                        !.attempt = IF st.pc = "RPCError" THEN @ + 1 ELSE @]
    /\ UNCHANGED <<authVars, ctlVars, chunk_cache, parts, req, out>>

\* read_range has ended; the consumer goes on to its next piece.
RangeReturn ==
    /\ st.pc = "rdone"
    /\ st' = [IdleRange EXCEPT
                 !.pc = IF req.hi = req.e THEN "fin" ELSE "idle"]
    /\ UNCHANGED <<authVars, ctlVars, chunk_cache, parts, req, out>>

\* _CHUNK_CACHE_TTL passes for the oldest entry of the chunk cache (entries
\* expire in the order of their timestamps): _get_cached_chunk no longer
\* returns it and _cache_chunk drops it before it counts the entries. It
\* is observed where the cache is next looked at: before a lookup of phase 1
\* and before a chunk is cached.
ChunkExpire ==
    /\ chunk_cache # <<>>
    /\ st.pc \in {"cache", "stream"}
    /\ chunk_cache' = Tail(chunk_cache)
    /\ UNCHANGED <<authVars, ctlVars, parts, req, st, out>>

\* A media item as the scanner stores it and a range 0 <= s < e <= total_size.
InitData ==
    /\ PoolInit(1)
    /\ InitControl
    /\ InitNoAuth
    /\ chunk_cache = <<>>
    /\ \E n \in 1..NumDataParts : parts \in [1..n -> 1..MaxPartSize]
    /\ \E s \in 0..(NumDataParts * MaxPartSize), e \in 1..(NumDataParts * MaxPartSize) :
          /\ s < e
          /\ e <= total_size
          /\ req = [s |-> s, e |-> e, lo |-> s, hi |-> s]
    /\ st = IdleRange
    /\ out = <<>>

DataNext ==
    \/ \E hi \in 1..(NumDataParts * MaxPartSize) : RangeStart(hi)
    \/ RangeLoop
    \/ CachePhase
    \/ StreamChunk
    \/ \E ok \in BOOLEAN : StreamEnd(ok)
    \/ \E k \in ErrorKinds : StreamRaise(k)
    \/ HandleFloodWait
    \/ HandleExpired
    \/ \E ok \in BOOLEAN : RefreshDone(ok)
    \/ HandleTransient
    \/ HandleOther
    \/ RangeReturn
    \/ ChunkExpire

SpecData == InitData /\ [][DataNext]_vars

\* ------------------------------------------------------------ SpecAuth
\* POST /auth/refresh. Each request has its own database session
\* (deps.get_db); a statement sees what was committed when it executes.
notAuthVars == <<client_pool, client_in_use, lock_held, held, reader_cache,
                 rd, cs, file_id_cache, dataVars, released>>

\* The SELECT of refresh_tokens by token, revoked = false, expires_at > now.
ValidRow(t) ==
    /\ t \in DOMAIN refresh_tokens
    /\ ~refresh_tokens[t].revoked
    /\ ~refresh_tokens[t].expired

\* A refresh request presenting token t arrives and its SELECT executes:
\* without a row it answers 401, with one it goes on to select the user.
RefreshSelect(q, t) ==
    /\ rq[q].pc = "idle"
    /\ rq' = [rq EXCEPT ![q] = [pc |-> IF ValidRow(t) THEN "user" ELSE "401",
                                token |-> t, issued |-> 0]]
    /\ UNCHANGED <<notAuthVars, refresh_tokens>>

\* The SELECT of the user returned the user.
RefreshSelectUser(q) ==
    /\ rq[q].pc = "user"
    /\ rq' = [rq EXCEPT ![q].pc = "revoke"]
    /\ UNCHANGED <<notAuthVars, refresh_tokens>>

\* refresh_token.revoked = True and _create_tokens: the commit writes the
\* revoked flag of the row that was read and inserts a new token, which the
\* response carries.
RefreshCommit(q) ==
    /\ rq[q].pc = "revoke"
    /\ Len(refresh_tokens) < MaxTokens
    /\ refresh_tokens' =
           Append([refresh_tokens EXCEPT ![rq[q].token].revoked = TRUE],
                  [revoked |-> FALSE, expired |-> FALSE])
    /\ rq' = [rq EXCEPT ![q].pc = "200",
                        ![q].issued = Len(refresh_tokens) + 1]
    /\ UNCHANGED notAuthVars

\* The clock passes expires_at of token t.
TokenExpire(t) ==
    /\ t \in DOMAIN refresh_tokens
    /\ ~refresh_tokens[t].expired
    /\ refresh_tokens' = [refresh_tokens EXCEPT ![t].expired = TRUE]
    /\ UNCHANGED <<notAuthVars, rq>>

\* A user has logged in: one refresh token is in the table.
InitAuth ==
    /\ PoolInit(1)
    /\ InitControl
    /\ InitNoData
    /\ refresh_tokens = <<[revoked |-> FALSE, expired |-> FALSE]>>
    /\ rq = [q \in AuthReqs |-> IdleRefresh]

AuthNext ==
    \/ \E q \in AuthReqs :
          \/ \E t \in 1..MaxTokens : RefreshSelect(q, t)
          \/ RefreshSelectUser(q)
          \/ RefreshCommit(q)
    \/ \E t \in 1..MaxTokens : TokenExpire(t)

SpecAuth == InitAuth /\ [][AuthNext]_vars

\* ---------------------------------------------------------------- claims
InFetch(c) == cs[c].stage = "fetch"

\* A step in which request c hands a blob to its consumer.
Yields(c) == cs[c].stage # "yield" /\ cs'[c].stage = "yield"

\* C3: in every state reached by get_available_clients, try_acquire_one and
\* release_clients calls of any holders, no client is in the lease sets of
\* two holders, nor twice in one, and every leased client of the pool is
\* marked in use.
C3_NoDoubleLease ==
    /\ \A h1, h2 \in Holders :
          h1 # h2 => Range(held[h1]) \cap Range(held[h2]) = {}
    /\ \A h \in Holders :
          /\ Cardinality(Range(held[h])) = Len(held[h])
          /\ \A x \in Range(held[h]) \cap Range(client_pool) :
                InUse(client_in_use, x)

\* C3 witness: two holders hold clients at once, and the first holds a
\* client it acquired after the second had released it.
C3_Witness ==
    /\ Len(held[1]) >= 2
    /\ Len(held[2]) >= 1
    /\ held[2][1] < held[1][2]
    /\ held[1][2] < held[1][1]

\* C4: no client has two stream_media calls in flight at once.
C4_OneFetchPerSession ==
    \A x \in ClientIds :
        Cardinality({c \in Calls : InFetch(c) /\ cs[c].client = x}) <= 1

\* C5: a fetch on a client for which a handle of the part has been minted
\* on that client never uses a handle minted on another client (0 is the
\* handle stored in the database).
C5_HandleOfOwnSession ==
    \A c \in Calls :
        /\ InFetch(c)
        /\ file_id_cache[<<cs[c].part, cs[c].client>>] = cs[c].client
        => cs[c].file_id \in {0, cs[c].client}

\* C6: a read_range that was in flight when release_reader popped its
\* reader yields no further blob.
C6_NoBlobAfterForceRelease ==
    [][\A c \in Calls : cs[c].rel = "caught" => ~Yields(c)]_vars

\* C7: a read_range started after release_reader has popped its reader
\* never yields.
C7_NoBytesAfterRelease ==
    \A c \in Calls : cs[c].rel = "late" => cs[c].stage # "yield"

\* C8: release_reader on a media id with an entry leaves the registry
\* without the entry, the reader flagged force_released and every client of
\* its lease set free.
C8_ReleasePostcondition ==
    [][ReleaseReader =>
         LET r == reader_cache
         IN  /\ reader_cache' = 0
             /\ rd'[r].force_released
             /\ \A x \in Range(rd[r].clients) : ~InUse(client_in_use', x)]_vars

\* C9: while no entry has been released, all persistent get_virtual_reader
\* calls have returned the same reader.
C9_SameReaderPerMedia ==
    released = {} =>
        \A c1, c2 \in Calls :
            /\ cs[c1].reader # 0 /\ rd[cs[c1].reader].persistent
            /\ cs[c2].reader # 0 /\ rd[cs[c2].reader].persistent
            => cs[c1].reader = cs[c2].reader

\* C10: when a read_range on a reader that is neither persistent nor in
\* batch mode ends (completion, exception, cancellation), the reader's lease
\* set is empty and every client it held is free in the pool.
C10_ReleasedAtEnd ==
    [][\A c \in Calls :
          LET r == cs[c].reader
          IN  /\ cs[c].mode = "range"
              /\ cs[c].stage \notin Ended \cup {"idle", "db", "dbp"}
              /\ cs'[c].stage \in Ended
              /\ ~rd[r].persistent
              /\ ~rd[r].batch
              => /\ rd'[r].clients = <<>>
                 /\ \A x \in Range(rd[r].clients) : ~InUse(client_in_use', x)]_vars

\* C10 witness: one such read_range has completed and another has been
\* cancelled or has failed, each after a client had been selected.
C10_Witness ==
    \E c1, c2 \in Calls :
        /\ cs[c1].stage = "done" /\ cs[c1].mode = "range" /\ cs[c1].reader = c1
        /\ cs[c2].stage \in {"cancelled", "failed"} /\ cs[c2].mode = "range"
        /\ cs[c2].reader = c2
        /\ \A c \in {c1, c2} :
              ~rd[c].persistent /\ rd[c].rr > 0 /\ rd[c].clients = <<>>

\* C1: a read_range(lo, hi) that has run to completion has yielded blobs
\* whose lengths sum to hi - lo.
C1_YieldsExactLength ==
    st.pc = "rdone" => st.bytes_read = req.hi - req.lo

\* C1 witness: a completed read_range that crossed a part boundary, over a
\* first part whose size is not a multiple of the chunk size, and whose last
\* part stream was retried.
C1_Witness ==
    /\ st.pc = "rdone"
    /\ st.bytes_read = req.hi - req.lo
    /\ find_part_for_offset(req.lo) = 1
    /\ find_part_for_offset(req.hi - 1) = 2
    /\ parts[1] % ChunkSize # 0
    /\ st.attempt > 0

\* C2: when a read_range(lo, hi) of the consumer's partition of [s, e) has
\* completed, everything received since s is bytes s..hi-1 of the parts'
\* concatenation; with lo = s this is the output of one read_range, with
\* hi = e the whole range.
C2_OutputIsContent ==
    st.pc = "rdone" => out = SubSeq(Content, req.s + 1, req.hi)

\* C2 witness: the last read_range of a partition of the whole media item,
\* two parts long, has completed after serving a chunk from the cache.
C2_Witness ==
    /\ st.pc = "rdone"
    /\ req.s = 0 /\ req.e = total_size /\ req.hi = req.e
    /\ req.lo > 0
    /\ Len(parts) = 2
    /\ st.cache_hits > 0
    /\ out = Content

\* C11: the end of a read_range on a persistent reader leaves the reader's
\* lease set as it was.
C11_PersistentKeepsLease ==
    [][\A c \in Calls :
          LET r == cs[c].reader
          IN  /\ cs[c].mode = "range"
              /\ cs[c].stage \in Suspended
              /\ cs'[c].stage \in Ended
              /\ rd[r].persistent
              => rd'[r].clients = rd[r].clients]_vars

\* C12: in every state of the pool, also after shutdown and after a reload,
\* the clients in use and the clients a caller could be handed add up to the
\* pool, 0 <= in use <= total, and pool_pressure() is the fraction in use
\* (1 for an empty pool), within [0, 1].
C12_PoolAccounting ==
    LET ps == PoolStatus
        pp == PoolPressure(client_pool, client_in_use)
        free == AvailableClients(client_pool, client_in_use, Len(client_pool))
    IN  /\ ps.clients_in_use + ps.clients_available = ps.total_clients
        /\ ps.clients_available = Len(free)
        /\ 0 <= ps.clients_in_use /\ ps.clients_in_use <= ps.total_clients
        /\ pp.den > 0 /\ 0 <= pp.num /\ pp.num <= pp.den
        /\ ps.total_clients > 0 =>
              pp.num * ps.total_clients = ps.clients_in_use * pp.den

\* C12 witness: after a shutdown and a reload a holder still has a client of
\* the old pool in its hands while clients of the new pool are in use.
C12_Witness ==
    /\ \E h \in Holders : \E x \in Range(held[h]) : x \notin Range(client_pool)
    /\ PoolStatus.clients_in_use > 0
    /\ PoolStatus.clients_available > 0

\* C13: a read_range that finds its reader without clients fails with no
\* byte yielded and the pool's marks untouched when no client is free, and
\* otherwise acquires exactly one client.
C13_AcquireOneOrNoWorkers ==
    [][\A c \in Calls : LET r == cs[c].reader IN
          /\ cs[c].mode = "range"
          /\ cs[c].stage \in {"new", "waitlock"}
          /\ cs'[c].stage \notin {"new", "waitlock", "done", "cancelled"}
          /\ ~rd[r].batch
          /\ rd[r].clients = <<>>
          => IF AvailableClients(client_pool, client_in_use, 1) = <<>>
             THEN /\ cs'[c].stage = "failed"
                  /\ client_in_use' = client_in_use
             ELSE Len(rd'[r].clients) = 1]_vars

\* C14: a FloodWait raised by stream_media is slept out and the fetch
\* resumed at the same chunk with the attempt counter as it was, so it never
\* ends the retry loop.
C14_FloodWaitNotCounted ==
    [][st.pc = "FloodWait"
       => /\ st'.pc = "stream"
          /\ st'.attempt = st.attempt
          /\ st'.next_chunk_to_fetch = st.next_chunk_to_fetch
          /\ st'.chunks_remaining = st.chunks_remaining]_vars

\* The position of the fetch: the next chunk to ask for, the chunks still
\* expected, the bytes still to skip and the bytes yielded so far.
FetchPosition(s) ==
    <<s.part, s.next_chunk_to_fetch, s.chunks_remaining,
      s.skip_bytes_for_fetch, s.bytes_yielded, s.current_offset>>

\* C15: on FileReferenceExpired the cache entry of (part, client) is
\* deleted and one _refresh_file_id(part, client) awaited; when it returns
\* a handle the fetch goes on with that handle at the position it had, no
\* byte yielded in between, and a read_range that completes after such a
\* refresh has delivered exactly the bytes of its range.
C15_ExpiredRefreshResumes ==
    /\ [][st.pc = "FileReferenceExpired"
          => /\ st'.pc = "refresh"
             /\ file_id_cache'[<<st.part, DataClient>>] = 0
             /\ st'.file_id = st.file_id
             /\ FetchPosition(st') = FetchPosition(st)
             /\ out' = out]_vars
    /\ [][st.pc = "refresh" /\ st'.pc # "failed"
          => /\ st'.pc = "stream"
             /\ st'.file_id = st.file_id + 1
             /\ FetchPosition(st') = FetchPosition(st)
             /\ out' = out]_vars
    /\ [](st.pc = "rdone" /\ st.file_id > 0
          => /\ st.bytes_read = req.hi - req.lo
             /\ out = SubSeq(Content, req.s + 1, req.hi))

\* C15 witness: the first stream_media call of a read_range, with nothing
\* served from the cache and nothing yielded, raised FileReferenceExpired:
\* the entry of (part, client) is gone and the one refresh is awaited.
C15_Witness ==
    /\ st.pc = "refresh"
    /\ st.attempt = 1
    /\ st.file_id = 0
    /\ st.cache_hits = 0
    /\ st.bytes_read = 0
    /\ st.next_chunk_to_fetch = initial_chunk_offset(st)
    /\ file_id_cache[<<st.part, DataClient>>] = 0
    /\ \E p \in DOMAIN parts \ {st.part} :
          file_id_cache[<<p, DataClient>>] = DataClient

\* C16: an exception of stream_media that no retrying except clause takes
\* (an RPCError that is neither FileReferenceExpired nor FloodWait, or any
\* other exception) ends _stream_part and read_range in the next step, and
\* after the failure no chunk is fetched, cached or yielded.
C16_OtherErrorPropagates ==
    /\ [][st.pc \in {"RPCError", "OSError", "Exception"}
          => /\ st'.pc = "failed"
             /\ FetchPosition(st') = FetchPosition(st)
             /\ chunk_cache' = chunk_cache
             /\ out' = out]_vars
    /\ [][st.pc = "failed"
          => /\ st'.pc = "failed"
             /\ chunk_cache' = chunk_cache
             /\ out' = out]_vars

\* C16 witness: a read_range has failed in the middle of a part with no
\* attempt counted and no early end of a stream, which only an exception
\* raised through `except Exception` leaves behind.
C16_Witness ==
    /\ st.pc = "failed"
    /\ st.attempt = 0
    /\ st.consecutive_failures = 0
    /\ st.bytes_yielded > 0
    /\ st.chunks_remaining > 0

\* worker_manager.MAX_CLIENTS_PER_STREAM.
MAX_CLIENTS_PER_STREAM == 6

\* C17: a reader's lease set starts with one client and grows by one client
\* at a time (one try_acquire_one at the entry of a read_range), and never
\* holds more than MAX_CLIENTS_PER_STREAM clients.
C17_LeaseGrowsByOne ==
    [][\A r \in Readers :
          /\ Len(rd'[r].clients) <= Len(rd[r].clients) + 1
          /\ Len(rd'[r].clients) <= MAX_CLIENTS_PER_STREAM]_vars

\* C18: a read_range entered on a persistent reader that holds more than one
\* client while more than three quarters of the pool are in use gives the
\* last client of its lease set back to the pool and keeps the others.
C18_ScaleDownUnderPressure ==
    [][\A c \in Calls :
          LET r == cs[c].reader
              pp == PoolPressure(client_pool, client_in_use)
              n == Len(rd[r].clients)
          IN  /\ cs[c].stage = "new"
              /\ cs'[c].stage \notin {"new", "done"}
              /\ cs'[c].mode = "range"
              /\ rd[r].persistent
              /\ n > 1
              /\ 4 * pp.num > 3 * pp.den
              => /\ rd'[r].clients = SubSeq(rd[r].clients, 1, n - 1)
                 /\ ~InUse(client_in_use', rd[r].clients[n])]_vars

\* Requests of SpecPin: one more than two, so that a request can start
\* after another has ended while a third is still in progress.
NumPinCalls == 3
PinCalls == 1..NumPinCalls

\* Three idle requests on a pool of MaxClients free clients.
InitPin ==
    /\ PoolInit(MaxClients)
    /\ InitNoAuth
    /\ held = [h \in Holders |-> <<>>]
    /\ reader_cache = 0
    /\ rd = [r \in PinCalls |-> NewReader]
    /\ cs = [c \in PinCalls |-> IdleCall]
    /\ file_id_cache = [k \in Parts \X ClientIds |-> 0]
    /\ released = {}
    /\ InitNoData

\* Overlapping persistent range requests (stream_raw) for one media item,
\* every backend call answered, a stream_media call possibly by FloodWait.
PinNext ==
    \E c \in PinCalls :
        \/ GetReader(c, TRUE)
        \/ GetReaderDone(c)
        \/ \E first, last \in Parts, hit \in BOOLEAN :
              ReadRangeStart(c, first, last, hit)
        \/ PopulateDone(c)
        \/ \E hit \in BOOLEAN : RefreshAllDone(c, TRUE, hit)
        \/ \E hit \in BOOLEAN : EnsureDone(c, TRUE, hit)
        \/ FetchChunk(c)
        \/ FetchFloodWait(c)
        \/ FloodWake(c)
        \/ \E hit \in BOOLEAN : Resume(c, hit)

SpecPin == InitPin /\ [][PinNext]_vars

\* Request c has selected its client and has not ended.
Pinned(c) == cs[c].stage \in {"ens", "fetch", "flood", "rf", "yield"}

\* C19: a read_range keeps the client it selected until it ends, and two
\* read_range calls in progress on one reader that holds at least two
\* clients, no third one being in progress on it, have selected different
\* clients.
C19_DistinctPins ==
    /\ [][\A c \in DOMAIN cs :
             Pinned(c) /\ Pinned(c)' => cs'[c].client = cs[c].client]_vars
    /\ [](\A c1, c2 \in DOMAIN cs :
             /\ c1 # c2
             /\ Pinned(c1) /\ Pinned(c2)
             /\ cs[c1].reader = cs[c2].reader
             /\ \A c \in DOMAIN cs \ {c1, c2} :
                   ~(Pinned(c) /\ cs[c].reader = cs[c1].reader)
             /\ Len(rd[cs[c1].reader].clients) >= 2
             => cs[c1].client # cs[c2].client)

\* No request is between get_virtual_reader and the end of its read_range.
Quiet == \A c \in Calls : cs[c].stage \in Ended \cup {"idle"}

\* A pass that releases every stale entry, whatever is in progress on it.
CleanupStaleReadersEager(stale) ==
    /\ reader_cache # 0
    /\ IF stale THEN ReleaseReader ELSE UNCHANGED vars

\* manager.cleanup_stale_readers, one pass of the loop of main.py: `stale`
\* tells whether _READER_TTL has passed since the entry's last access.
\* For a stale entry reader._active_streams is read next: a reader with
\* that attribute and no stream in progress is handed to release_reader;
\* without the attribute the pass ends in AttributeError, which the loop
\* logs. A fresh entry is left alone.
CleanupStaleReaders(stale) ==
    /\ reader_cache # 0
    /\ IF stale /\ HasActiveStreams /\ Quiet
       THEN ReleaseReader
       ELSE UNCHANGED vars

\* stream_reader_cleanup_loop: a pass every 30 seconds, errors caught.
CleanupLoop == \E stale \in BOOLEAN : CleanupStaleReaders(stale)

\* Persistent range requests, the explicit release and the cleanup loop.
SweepNext ==
    \/ ReleaseReader
    \/ CleanupLoop
    \/ \E c \in Calls :
        \/ GetReader(c, TRUE)
        \/ GetReaderDone(c)
        \/ \E first, last \in Parts, hit \in BOOLEAN :
              ReadRangeStart(c, first, last, hit)
        \/ PopulateDone(c)
        \/ \E ok, hit \in BOOLEAN : RefreshAllDone(c, ok, hit)
        \/ \E ok, hit \in BOOLEAN : EnsureDone(c, ok, hit)
        \/ FetchChunk(c)
        \/ \E hit \in BOOLEAN : Resume(c, hit)
        \/ Cancel(c)

\* The cleanup task runs for as long as the process does, so a pass that
\* can change the registry is eventually made; nothing obliges a user to
\* send a request or a release.
SpecSweep == Init /\ [][SweepNext]_vars /\ WF_vars(CleanupLoop)

\* C20: a reader that is registered while no request is in progress is
\* eventually swept, its entry removed and no client left in use, unless a
\* request touches it first.
C20_StaleReaderSwept ==
    (reader_cache # 0 /\ Quiet)
        ~> (\/ reader_cache = 0 /\ ClientsInUse(client_in_use) = 0
            \/ ~Quiet)

\* C21: while a request sleeps out a FloodWait it received on a client, no
\* get_available_clients or try_acquire_one hands that client out: it does
\* not go from free to in use, also not after it was released meanwhile.
C21_NoLeaseDuringBackoff ==
    [][\A c \in DOMAIN cs :
          cs[c].stage = "flood" /\ cs'[c].stage = "flood"
          => ~(/\ ~InUse(client_in_use, cs[c].client)
               /\ InUse(client_in_use', cs[c].client))]_vars

\* C22: once a batch_mode call has ended, by leaving its scope or by an
\* error or cancellation before the scope was entered, its reader holds no
\* client: everything it acquired is back in the pool.
C22_BatchScopeReleases ==
    \A c \in DOMAIN cs :
        cs[c].mode = "batch" /\ cs[c].stage \in Ended
        => rd[cs[c].reader].clients = <<>>

\* The pool is loaded at startup and emptied only by the shutdown part of
\* lifespan, so in SpecLifespan a loaded pool tells that the process is
\* serving and an empty one that its shutdown has completed.
Running == client_pool # <<>>

\* lifespan: requests, releases and cleanup passes while the process
\* serves; after the yield the two background tasks are cancelled and
\* worker_manager.shutdown() stops every client and clears the pool.
LifespanNext ==
    \/ Running /\ SweepNext
    \/ Shutdown

SpecLifespan == Init /\ [][LifespanNext]_vars

\* C23: once shutdown has completed, the registry is empty, every reader
\* that was registered has _force_released set, and no client is left in
\* the pool.
C23_ShutdownReleasesRegistry ==
    ~Running
    => /\ reader_cache = 0
       /\ \A r \in DOMAIN rd :
             rd[r].made /\ (rd[r].persistent \/ r \in released)
             => rd[r].force_released
       /\ client_in_use = <<>>

\* The keys of the chunk cache, oldest entry first.
CacheKeys(cache) == [i \in 1..Len(cache) |-> cache[i].key]

C25_RefreshTokenOnce ==
    \A t \in 1..MaxTokens :
        Cardinality({q \in AuthReqs : rq[q].pc = "200" /\ rq[q].token = t}) <= 1

\* Clients load_workers starts for one standard worker: the primary client
\* and CLIENTS_PER_WORKER_STANDARD - 1 extra ones.
CLIENTS_PER_WORKER_STANDARD == 4

\* Two idle requests on the pool of up to one standard worker's clients.
InitRace ==
    /\ PoolInit(CLIENTS_PER_WORKER_STANDARD)
    /\ InitNoAuth
    /\ held = [h \in Holders |-> <<>>]
    /\ reader_cache = 0
    /\ rd = [r \in Readers |-> NewReader]
    /\ cs = [c \in Calls |-> IdleCall]
    /\ file_id_cache = [k \in Parts \X (1..CLIENTS_PER_WORKER_STANDARD) |-> 0]
    /\ released = {}
    /\ InitNoData

\* Persistent range requests for one media item while other requests hold
\* the pool lock in get_best_worker; every backend call is answered.
RaceNext ==
    \/ GetBestWorkerEnter
    \/ GetBestWorkerExit
    \/ \E c \in Calls :
        \/ GetReader(c, TRUE)
        \/ GetReaderDone(c)
        \/ \E first, last \in Parts, hit \in BOOLEAN :
              ReadRangeStart(c, first, last, hit)
        \/ LockGranted(c)
        \/ PopulateDone(c)
        \/ \E hit \in BOOLEAN : RefreshAllDone(c, TRUE, hit)
        \/ \E hit \in BOOLEAN : EnsureDone(c, TRUE, hit)
        \/ FetchChunk(c)
        \/ \E hit \in BOOLEAN : Resume(c, hit)

SpecRace == InitRace /\ [][RaceNext]_vars

\* C26: in every reachable state, every client marked in use in the pool is
\* in the _clients list of some reader, also when several read_range calls
\* start together on one reader whose list is empty.
C26_LeasedIsHeld ==
    \A c \in DOMAIN client_in_use :
        client_in_use[c]
        => \E r \in DOMAIN rd : rd[r].made /\ c \in Range(rd[r].clients)

\* C27: a client on which a stream_media call of some read_range is in
\* flight stays marked in use, unless its reader was force released: the
\* end of another read_range on the reader does not return it to the pool.
C27_PinnedStaysLeased ==
    \A c \in DOMAIN cs :
        /\ cs[c].stage = "fetch"
        /\ ~rd[cs[c].reader].force_released
        /\ cs[c].reader \notin released
        => InUse(client_in_use, cs[c].client)

InRetryLoop(s) == s.pc \in {"stream", "refresh"} \cup ErrorKinds

\* C29: within one _stream_part call next_chunk_to_fetch never decreases: a
\* step of the retry loop either leaves it as it is, or is the receipt of
\* the chunk at that index, which is cached as it was received and moves
\* the index on by one; the stream_media call after a recovery is therefore
\* issued at the index just after the last chunk received and cached, and
\* the chunks still expected are those from that index on.
C29_PositionMonotone ==
    /\ [](InRetryLoop(st)
          => /\ st.next_chunk_to_fetch >= initial_chunk_offset(st) + st.cache_hits
             /\ st.next_chunk_to_fetch + st.chunks_remaining
                   = initial_chunk_offset(st) + total_chunks_needed(st))
    /\ [][InRetryLoop(st) /\ InRetryLoop(st')
          => /\ st'.part = st.part
             /\ \/ st'.next_chunk_to_fetch = st.next_chunk_to_fetch
                \/ /\ st.pc = "stream" /\ st'.pc = "stream"
                   /\ st'.next_chunk_to_fetch = st.next_chunk_to_fetch + 1
                   /\ chunk_cache' # <<>>
                   /\ chunk_cache'[Len(chunk_cache')] =
                         [key |-> <<st.part, st.next_chunk_to_fetch>>,
                          data |-> BackendChunk(st.part, st.next_chunk_to_fetch)]]_vars

\* C29 witness: a stream_media call is issued after one counted error that
\* followed the receipt of a chunk in this _stream_part call: it starts
\* just after that chunk, which is in the cache.
C29_Witness ==
    /\ st.pc = "stream"
    /\ st.attempt = 1
    /\ st.file_id = 0
    /\ st.consecutive_failures = 0
    /\ st.next_chunk_to_fetch = initial_chunk_offset(st) + st.cache_hits + 1
    /\ st.chunks_remaining > 0
    /\ get_cached_chunk(chunk_cache, st.part, st.next_chunk_to_fetch - 1) # <<>>

\* The bytes of chunk q of part p that a request for `length` bytes at
\* `offset` of the part asks for.
RequestedOf(p, q, offset, length) ==
    LET lo == IF q * ChunkSize > offset THEN q * ChunkSize ELSE offset
        hi == Min((q + 1) * ChunkSize, offset + length)
    IN  SubSeq(PartContent(p), lo + 1, hi)

\* C30: whatever errors were recovered from on the way, each chunk of the
\* requested range contributes its requested bytes once and in increasing
\* order: a step of the retry loop that receives a chunk (it moves to the
\* next chunk, or returns having yielded) hands the consumer the requested
\* bytes of the chunk at next_chunk_to_fetch, no other step of the loop
\* hands over anything, and a
\* _stream_part call that returns after recoveries leaves the consumer with
\* the bytes of the media item up to current_offset, each once, in order.
C30_EachChunkOnce ==
    /\ [][InRetryLoop(st)
          => IF /\ st.pc = "stream"
                /\ \/ st'.next_chunk_to_fetch = st.next_chunk_to_fetch + 1
                   \/ st'.pc = "loop" /\ st'.bytes_read # st.bytes_read
             THEN out' = out \o RequestedOf(st.part, st.next_chunk_to_fetch,
                                            st.offset, st.length)
             ELSE out' = out]_vars
    /\ [](st.pc = "loop" /\ st.attempt > 0
          => /\ out = SubSeq(Content, req.s + 1, st.current_offset)
             /\ \A i, j \in 1..Len(out) : i < j => out[i] # out[j])

\* C30 witness: a _stream_part call for a whole part of two chunks has
\* returned after three counted recoveries, one of them a refresh, nothing
\* having come from the cache.
C30_Witness ==
    /\ st.pc = "loop"
    /\ st.attempt = 3
    /\ st.file_id >= 1
    /\ st.cache_hits = 0
    /\ req.lo = 0
    /\ st.current_offset = parts[1]
    /\ parts[1] > ChunkSize
    /\ out = PartContent(1)

\* The stream_media iterator ended in this step with chunks still expected.
IncompleteEnd ==
    /\ st.pc = "stream"
    /\ st.chunks_remaining > 0
    /\ st' # st
    /\ st'.pc \in {"stream", "failed"}
    /\ st'.next_chunk_to_fetch = st.next_chunk_to_fetch

\* C31: consecutive_failures counts the early ends of the stream of one
\* _stream_part call since its last refresh (an early end below the third
\* adds one, nothing but a refresh lowers it); at the third the entry of
\* (part, client) is deleted from the handle cache and the handle refreshed
\* on that client before the next stream_media call, which is issued with a
\* new handle and the counter at zero; no stream_media call is issued with
\* the counter at three.
C31_ThirdIncompleteRefreshes ==
    /\ [](st.pc = "stream"
          => st.consecutive_failures < max_consecutive_failures)
    /\ [][IncompleteEnd
          => IF st.consecutive_failures + 1 < max_consecutive_failures
             THEN /\ st'.pc = "stream"
                  /\ st'.consecutive_failures = st.consecutive_failures + 1
                  /\ st'.file_id = st.file_id
                  /\ file_id_cache' = file_id_cache
             ELSE /\ file_id_cache'[<<st.part, DataClient>>] = 0
                  /\ st'.pc = "stream"
                     => /\ st'.file_id = st.file_id + 1
                        /\ st'.consecutive_failures = 0
                        /\ st'.part = st.part]_vars
    /\ [][InRetryLoop(st) /\ InRetryLoop(st')
            /\ st'.consecutive_failures < st.consecutive_failures
          => IncompleteEnd /\ st'.consecutive_failures = 0]_vars

\* C31 witness: the first attempt of a _stream_part call delivered a chunk,
\* the handle was then refreshed once with nothing else counted, and a
\* stream_media call is about to be issued for the chunks still expected,
\* with the counter at zero and the old entry of (part, client) deleted.
C31_Witness ==
    /\ st.pc = "stream"
    /\ st.consecutive_failures = 0
    /\ st.attempt = 1
    /\ st.file_id = 1
    /\ st.cache_hits = 0
    /\ st.chunks_remaining > 0
    /\ st.next_chunk_to_fetch > initial_chunk_offset(st)
    /\ file_id_cache[<<st.part, DataClient>>] = 0

\* wait_time of `except TimeoutError`, in seconds, for the attempt counted.
TimeoutWait(attempt) == attempt * 2

\* C32: a transport error or a timeout of stream_media that leaves attempts
\* to spare counts one attempt and is retried at the position the fetch had;
\* the first retry is made without a sleep and no retry sleeps more than 8
\* seconds.
C32_TransportRetry ==
    [][st.pc \in {"OSError", "TimeoutError"} /\ st.attempt + 1 < max_retries
       => /\ st'.pc = "stream"
          /\ st'.attempt = st.attempt + 1
          /\ FetchPosition(st') = FetchPosition(st)
          /\ TimeoutWait(st'.attempt) <= 8
          /\ st'.attempt = 1 => TimeoutWait(st'.attempt) = 0]_vars

\* The reader of SpecRelease: get_virtual_reader(persistent=True) has
\* stored it in _reader_cache; the consumer is about to read from it.
InitRelease ==
    /\ PoolInit(1)
    /\ InitNoAuth
    /\ held = [h \in Holders |-> <<>>]
    /\ reader_cache = 1
    /\ rd = [r \in Readers |->
                IF r = 1
                THEN [NewReader EXCEPT !.made = TRUE, !.persistent = TRUE]
                ELSE NewReader]
    /\ cs = [c \in Calls |-> IdleCall]
    /\ file_id_cache = [k \in Parts \X ClientIds |-> 0]
    /\ released = {}
    /\ chunk_cache = <<>>
    /\ \E n \in 1..NumDataParts : parts \in [1..n -> 1..MaxPartSize]
    /\ \E s \in 0..(NumDataParts * MaxPartSize), e \in 1..(NumDataParts * MaxPartSize) :
          /\ s < e
          /\ e <= total_size
          /\ req = [s |-> s, e |-> e, lo |-> s, hi |-> s]
    /\ st = IdleRange
    /\ out = <<>>

\* The user navigates away while _stream_part runs: release_reader is
\* called for the media item.
ReleaseDuringStream ==
    /\ st.pc \in {"cache", "stream", "refresh"} \cup ErrorKinds
    /\ ReleaseReader

ReleaseNext == DataNext \/ ReleaseDuringStream

SpecRelease == InitRelease /\ [][ReleaseNext]_vars

\* C33: once release_reader has been called for the reader, _stream_part
\* hands the consumer nothing more and writes no chunk into the chunk cache,
\* neither while it serves from the cache nor while it fetches (the cache
\* changes only by the expiry of its oldest entry).
C33_NothingAfterRelease ==
    [][released # {} /\ released' = released
       => /\ out' = out
          /\ \/ chunk_cache' = chunk_cache
             \/ chunk_cache # <<>> /\ chunk_cache' = Tail(chunk_cache)]_vars

\* A media item of one part.
InitFetch == InitData /\ Len(parts) = 1

\* The event loop resumes the coroutine of read_range whenever what it
\* awaits (a sleep, a backend call, the consumer) has returned; the backend
\* is free to answer each call as it likes.
SpecFetchFair == InitFetch /\ [][DataNext]_vars /\ WF_vars(DataNext)

\* C34: whatever the backend answers (early ends, FloodWaits, expired
\* handles, desyncs, timeouts, other errors), a _stream_part call that has
\* entered its retry loop leaves it, by returning or by raising: it does not
\* retry forever.
C34_FetchTerminates ==
    InRetryLoop(st) ~> ~InRetryLoop(st)

\* C34 witness: a _stream_part call has returned after max_retries - 1
\* counted attempts and two uncounted early ends, the most a call that
\* completes can take.
C34_Witness ==
    /\ st.pc = "loop"
    /\ st.attempt = max_retries - 1
    /\ st.bytes_read > 0
    /\ st.cache_hits = 0

\* Persistent range requests and the cleanup loop, with no explicit
\* release: whatever leaves the registry was removed by the sweep.
SweepOnlyNext ==
    \/ CleanupLoop
    \/ \E c \in Calls :
        \/ GetReader(c, TRUE)
        \/ GetReaderDone(c)
        \/ \E first, last \in Parts, hit \in BOOLEAN :
              ReadRangeStart(c, first, last, hit)
        \/ PopulateDone(c)
        \/ \E ok, hit \in BOOLEAN : RefreshAllDone(c, ok, hit)
        \/ \E ok, hit \in BOOLEAN : EnsureDone(c, ok, hit)
        \/ FetchChunk(c)
        \/ \E hit \in BOOLEAN : Resume(c, hit)
        \/ Cancel(c)

SpecSweepOnly == Init /\ [][SweepOnlyNext]_vars

\* The read_range calls in progress on reader r.
ActiveRanges(r) == {c \in Calls : cs[c].reader = r /\ cs[c].stage \in Suspended}

C36_NoSelectionDuringBackoff ==
    [][\A c \in DOMAIN cs :
          /\ cs[c].stage = "flood"
             => /\ cs'[c].stage \in {"flood", "fetch"}
                /\ cs'[c].client = cs[c].client
          /\ cs[c].stage = "flood" /\ cs'[c].stage = "flood"
             => \A d \in DOMAIN cs \ {c} :
                   cs'[d].client = cs[c].client
                   => cs[d].client = cs[c].client]_vars

\* The index one past the last chunk of the request.
end_chunk(s) == initial_chunk_offset(s) + total_chunks_needed(s)

\* C37: phase 1 serves the cached chunks at the head of the request, each
\* with its requested bytes and without touching the cache, and makes no
\* stream_media call while it finds the chunk it looks up; the fetch starts
\* at the first index it did not find, with nothing refetched; a request
\* whose chunks are all found returns from phase 1; a _stream_part call that
\* was served from the cache, wholly or in part, leaves the consumer with
\* the same bytes as one served from the backend alone.
C37_CacheThenFetch ==
    /\ [][st.pc = "cache" /\ st' # st
          => LET hit == /\ st.idx < end_chunk(st)
                        /\ get_cached_chunk(chunk_cache, st.part, st.idx) # <<>>
             IN  /\ chunk_cache' = chunk_cache
                 /\ IF hit
                    THEN /\ st'.pc \in {"cache", "loop"}
                         /\ st'.cache_hits = st.cache_hits + 1
                         /\ out' = out \o RequestedOf(st.part, st.idx,
                                                      st.offset, st.length)
                    ELSE /\ out' = out
                         /\ st'.pc = "stream"
                            => /\ st.idx < end_chunk(st)
                               /\ st'.next_chunk_to_fetch = st.idx
                               /\ st.idx = initial_chunk_offset(st) + st.cache_hits
                               /\ st'.chunks_remaining = end_chunk(st) - st.idx
                         /\ st.idx = end_chunk(st) => st'.pc = "loop"]_vars
    /\ [](st.pc = "loop" /\ st.cache_hits > 0
          => out = SubSeq(Content, req.s + 1, st.current_offset))

\* C37 witness: the first chunk of a request came from the cache, the next
\* one was not there, and the fetch is about to start at it.
C37_Witness ==
    /\ st.pc = "stream"
    /\ st.cache_hits = 1
    /\ st.attempt = 0
    /\ st.consecutive_failures = 0
    /\ st.bytes_yielded > 0
    /\ st.next_chunk_to_fetch = initial_chunk_offset(st) + 1
    /\ st.chunks_remaining = 1
    /\ get_cached_chunk(chunk_cache, st.part, st.next_chunk_to_fetch) = <<>>

\* Request c has a _refresh_file_id call in flight before its fetch: part
\* and client of the call, <<0, 0>> when there is none.
Minting(s) ==
    IF s.stage = "ra" THEN <<s.i, s.rpc>>
    ELSE IF s.stage = "ens" THEN <<s.i, s.client>>
    ELSE <<0, 0>>

\* C38: before a fetch, a _refresh_file_id call for a part on a client is
\* issued only when _FILE_ID_CACHE has no entry for (part, client), and a
\* handle such a call returns is stored under (part, client).
C38_MintOnlyOnMiss ==
    [][\A c \in Calls :
          LET old == Minting(cs[c])
              new == Minting(cs'[c])
              r == cs[c].reader
          IN  /\ new # <<0, 0>> /\ new # old
                 => file_id_cache'[new] = 0
              /\ old # <<0, 0>> /\ cs'[c] # cs[c]
                   /\ rd[r].file_id[old[1]] # old[2]
                   /\ rd'[r].file_id[old[1]] = old[2]
                 => file_id_cache'[old] = old[2]]_vars

\* _stream_part is running for a part (phase 1 or the retry loop).
InStreamPart(s) == s.pc = "cache" \/ InRetryLoop(s)

\* C39: for a request of `length` bytes at `offset` of a part, with
\* q0 = offset div ChunkSize and q_end = ceil((offset + length) / ChunkSize):
\* the chunks asked of the backend lie in q0 .. q_end - 1, the first blob
\* yielded is chunk q0 without its first offset mod ChunkSize bytes (cut to
\* `length` if longer), never more than `length` bytes are yielded, and a
\* call that returns has yielded exactly `length` bytes.
C39_ChunkArithmetic ==
    /\ [](InStreamPart(st)
          => /\ initial_chunk_offset(st) * ChunkSize + initial_skip_bytes(st)
                   = st.offset
             /\ (end_chunk(st) - 1) * ChunkSize < st.offset + st.length
             /\ st.offset + st.length <= end_chunk(st) * ChunkSize
             /\ st.bytes_yielded <= st.length
             /\ st.pc = "stream" /\ st.chunks_remaining > 0
                => /\ initial_chunk_offset(st) <= st.next_chunk_to_fetch
                   /\ st.next_chunk_to_fetch + st.chunks_remaining
                         <= end_chunk(st))
    /\ [][InStreamPart(st) /\ st.bytes_yielded = 0 /\ out' # out
          => LET q0 == BackendChunk(st.part, initial_chunk_offset(st))
                 r0 == initial_skip_bytes(st)
             IN  out' = out \o SubSeq(q0, r0 + 1, Min(Len(q0), r0 + st.length))]_vars
    /\ [][InStreamPart(st) /\ st'.pc = "loop"
          => st'.current_offset - st.current_offset + st.bytes_yielded
                = st.length]_vars

\* C39 witness: a request that starts inside a chunk and ends in the next
\* one has received the rest of its first chunk and is about to fetch the
\* second.
C39_Witness ==
    /\ st.pc = "stream"
    /\ initial_skip_bytes(st) = 1
    /\ st.cache_hits = 0
    /\ st.bytes_yielded = ChunkSize - 1
    /\ st.length > st.bytes_yielded
    /\ st.next_chunk_to_fetch = initial_chunk_offset(st) + 1
    /\ st.chunks_remaining = 1
    /\ out # <<>>
    /\ out[Len(out)] = <<st.part, st.offset>>

\* Persistent range requests for one media item while an administrator adds
\* or deletes a worker: verify_code and delete_worker call shutdown and then
\* load_workers, which starts the clients one after the other.
ReloadNext ==
    \/ Shutdown
    \/ LoadClient
    \/ \E c \in Calls :
        \/ GetReader(c, TRUE)
        \/ GetReaderDone(c)
        \/ \E first, last \in Parts, hit \in BOOLEAN :
              ReadRangeStart(c, first, last, hit)
        \/ PopulateDone(c)
        \/ \E hit \in BOOLEAN : RefreshAllDone(c, TRUE, hit)
        \/ \E hit \in BOOLEAN : EnsureDone(c, TRUE, hit)
        \/ FetchChunk(c)
        \/ \E hit \in BOOLEAN : Resume(c, hit)

SpecReload == InitRace /\ [][ReloadNext]_vars

\* C40: every client in a reader's _clients list is in the pool, that is,
\* started and not stopped, also after the shutdown and reload that adding
\* or deleting a worker performs.
C40_LeasedInPool ==
    \A r \in DOMAIN rd :
        \A x \in Range(rd[r].clients) : x \in Range(client_pool)

====
